---- MODULE Spec2Model ----
(***************************************************************************)
(* Model of HttpReport/__init__.py: the report-assembly HTTP handler       *)
(* (main), its helpers (_parse_multipart, _read_scores_from_excel,         *)
(* _fill_word_scores, _merge_pdfs, _upload_with_sas), the blob store and   *)
(* the temporary files the handler leaves on disk.                         *)
(*                                                                         *)
(* Four specifications:                                                    *)
(*   Spec       one invocation of main on an arbitrary request, against a  *)
(*              storage service that may fail;                             *)
(*   SpecConc   NumReqs concurrent invocations of main on valid requests,  *)
(*              against a healthy storage service;                         *)
(*   SpecScores _read_scores_from_excel, dict(zip(..)) and                 *)
(*              _fill_word_scores applied to bounded worksheets;           *)
(*   SpecMerge  _merge_pdfs applied to bounded documents.                  *)
(***************************************************************************)
EXTENDS Integers, Sequences, FiniteSets, TLC

\* ------------------------------------------------------------------ bounds
NumReqs == 2
MaxClock == 3
MaxRows == 3
MaxPages == 3

Reqs == 1..NumReqs
FirstReq == CHOOSE r \in Reqs : \A q \in Reqs : r <= q

VARIABLES
    \* --- process-wide / external state
    CONN_STR,        \* module global read from the environment at import
    storageFaulty,   \* whether the storage service may fail calls (network, auth)
    containerExists, \* the blob container CONTAINER exists
    blobs,           \* the container's objects: a set of [name, data]
    clock,           \* datetime.utcnow(), in half seconds
    \* --- per invocation of main
    req,             \* the HTTP request handed to main
    pc,              \* position of the invocation in main
    files,           \* result of _parse_multipart
    tmp,             \* temporary files of the invocation that exist on disk
    ts,              \* the timestamp string computed at line 161
    urls,            \* signed URLs returned by _upload_with_sas so far
    resp,            \* the HttpResponse returned
    hist,            \* the calls the invocation has made, with their outcome
    \* --- _read_scores_from_excel / _fill_word_scores on concrete data
    sheet, cats, scores, overall, score_map, table, sphase,
    \* --- _merge_pdfs on concrete data
    cover_pdf_bytes, scorecard_pdf, narrative_pdf_bytes, writer, out, mphase

pipeVars == <<CONN_STR, storageFaulty, containerExists, blobs, clock,
              req, pc, files, tmp, ts, urls, resp, hist>>
scoreVars == <<sheet, cats, scores, overall, score_map, table, sphase>>
mergeVars == <<cover_pdf_bytes, scorecard_pdf, narrative_pdf_bytes, writer, out, mphase>>
vars == <<pipeVars, scoreVars, mergeVars>>

\* ------------------------------------------------------- request contents
Absent == "absent"

\* What the bytes of an uploaded part are, as far as the libraries that read
\* them can tell.
ExcelContents == {"workbook", "no_summary_sheet", "no_category_column"}
WordContents == {"docx_with_table", "docx_without_table"}
PdfContents == {"pdf", "empty_bytes", "not_a_pdf"}

ContentTypes == {"missing", "application/json", "multipart/form-data; boundary=x"}

PartMaps ==
    [excel : ExcelContents \cup {Absent},
     word_template : WordContents \cup {Absent},
     cover_pdf : PdfContents \cup {Absent},
     narrative_pdf : PdfContents \cup {Absent}]

NoParts == [excel |-> Absent, word_template |-> Absent,
            cover_pdf |-> Absent, narrative_pdf |-> Absent]

\* A request: its Content-Type header and its body, which either decodes as
\* multipart into the named parts or does not decode.
Requests ==
    [ctype : ContentTypes, decodable : {TRUE}, parts : PartMaps]
    \cup [ctype : ContentTypes, decodable : {FALSE}, parts : {NoParts}]

ValidRequests ==
    {q \in Requests :
        /\ q.ctype = "multipart/form-data; boundary=x"
        /\ q.decodable
        /\ q.parts.excel = "workbook"
        /\ q.parts.word_template = "docx_with_table"
        /\ q.parts.cover_pdf \in {Absent, "pdf"}
        /\ q.parts.narrative_pdf \in {Absent, "pdf"}}

NoReq == [ctype |-> "missing", decodable |-> FALSE, parts |-> NoParts]

\* ------------------------------------------------------------ PDF values
\* A bytes|None argument of _merge_pdfs: None, b"", the bytes of a PDF with
\* the given pages, or bytes that PdfReader cannot parse.
NonePdf == [k |-> "none", pages |-> <<>>]
EmptyBytes == [k |-> "empty", pages |-> <<>>]
CorruptPdf == [k |-> "corrupt", pages |-> <<>>]
PdfDoc(pages) == [k |-> "pdf", pages |-> pages]

DocPages(doc, n) == [i \in 1..n |-> [doc |-> doc, n |-> i]]

\* Python truthiness of a bytes|None value (lines 108, 113).
Truthy(b) == b.k \notin {"none", "empty"}

\* _merge_pdfs, lines 106-118: the pages the writer holds at writer.write.
MergePdfsSwapped(cover, score, narr) ==
    (IF Truthy(cover) THEN cover.pages ELSE <<>>)
        \o (IF Truthy(narr) THEN narr.pages ELSE <<>>)
        \o score.pages

MergePdfs(cover, score, narr) ==
    (IF Truthy(cover) THEN cover.pages ELSE <<>>)
        \o score.pages
        \o (IF Truthy(narr) THEN narr.pages ELSE <<>>)

\* PdfReader(...) raises on bytes that are no PDF; only truthy arguments are read.
MergeRaises(cover, narr) ==
    \/ Truthy(cover) /\ cover.k = "corrupt"
    \/ Truthy(narr) /\ narr.k = "corrupt"

\* ------------------------------------------------------------- the store
BlobName(prefix, t, ext) == [prefix |-> prefix, ts |-> t, ext |-> ext]
NoName == BlobName("", -1, "")
NoUrl == [blob |-> NoName, permission |-> "none"]

\* container.upload_blob(name, data, overwrite=True), line 129.
upload_blob(bl, name, data) ==
    {b \in bl : b.name # name} \cup {[name |-> name, data |-> data]}

\* generate_blob_sas + the f-string of line 140: a read-only URL of one object.
SasUrl(name) == [blob |-> name, permission |-> "read"]

\* What a GET of the URL returns: the data of the object of that name.
Resolve(url) == {b.data : b \in {x \in blobs : x.name = url.blob}}

\* datetime.utcnow().strftime("%Y%m%d-%H%M%S"), line 161: the clock counts
\* half seconds, the format keeps whole seconds.
StrfTime(t) == t \div 2

\* ----------------------------------------------------- main, step by step
NoResp == [status |-> 0, msg |-> "", pdf_url |-> NoUrl, narrative_docx_url |-> NoUrl]
NoUrls == [pdf |-> NoUrl, docx |-> NoUrl]

Call(op, res) == [op |-> op, res |-> res]

\* lines 18-21: the header test and the decoder.
ParseOutcome(q) ==
    IF q.ctype = "missing" \/ q.ctype # "multipart/form-data; boundary=x"
    THEN "Content-Type must be multipart/form-data"
    ELSE IF ~q.decodable THEN "multipart decode error"
    ELSE "ok"

\* line 149: not excel or not word_template.
MissingExcelOnly(f) == f.excel = Absent

MissingRequired(f) == f.excel = Absent \/ f.word_template = Absent

\* lines 39-44: pd.read_excel(sheet_name=...) and the column lookup.
ReadExcelOutcome(content) ==
    CASE content = "workbook" -> "ok"
      [] content = "no_summary_sheet" -> "Worksheet named 'Summary Dashboard' not found"
      [] content = "no_category_column" -> "Could not find 'Category' column in Summary Dashboard."

\* lines 90-92: Document(tmp_in.name) and the table test.
FillWordOutcome(content) ==
    CASE content = "docx_with_table" -> "ok"
      [] content = "docx_without_table" ->
            "Word template has no tables. Expected Operations Review table as first table."

\* lines 153, 159: part["content"] if part else None.
PartBytes(content, doc) ==
    CASE content = Absent -> NonePdf
      [] content = "empty_bytes" -> EmptyBytes
      [] content = "pdf" -> PdfDoc(DocPages(doc, 1))
      [] content = "not_a_pdf" -> CorruptPdf

FinalPdf(r) ==
    [req |-> r, kind |-> "final_pdf",
     pages |-> MergePdfs(PartBytes(files[r].cover_pdf, "cover"),
                         PdfDoc(DocPages("scorecard", 1)),
                         PartBytes(files[r].narrative_pdf, "narrative"))]
FilledDocx(r) == [req |-> r, kind |-> "filled_docx", pages |-> <<>>]

\* lines 162-163.
PdfName(t) == BlobName("CJ_Report_", t, ".pdf")
DocxName(t) == BlobName("CJ_Narrative_", t, ".docx")

\* The except clause of lines 168-170: the exception ends the invocation.
RetryOnError(r, p, msg) ==
    /\ pc' = [pc EXCEPT ![r] = p]
    /\ resp' = resp

Raise(r, p, msg) ==
    /\ pc' = [pc EXCEPT ![r] = "done"]
    /\ resp' = [resp EXCEPT ![r] = [NoResp EXCEPT !.status = 500, !.msg = msg]]

Log(r, op, res) == hist' = [hist EXCEPT ![r] = Append(@, Call(op, res))]

storeUnchanged == UNCHANGED <<CONN_STR, storageFaulty, containerExists, blobs>>
otherUnchanged == UNCHANGED <<scoreVars, mergeVars>>

\* The host hands a request to main.
Receive(r) ==
    /\ pc[r] = "idle"
    /\ \E q \in Requests : req' = [req EXCEPT ![r] = q]
    /\ pc' = [pc EXCEPT ![r] = "parse"]
    /\ UNCHANGED <<clock, files, tmp, ts, urls, resp, hist>>
    /\ storeUnchanged /\ otherUnchanged

ReceiveValid(r) ==
    /\ pc[r] = "idle"
    /\ \E q \in ValidRequests : req' = [req EXCEPT ![r] = q]
    /\ pc' = [pc EXCEPT ![r] = "parse"]
    /\ UNCHANGED <<clock, files, tmp, ts, urls, resp, hist>>
    /\ storeUnchanged /\ otherUnchanged

\* line 144: files = _parse_multipart(req).
ParseMultipart(r) ==
    /\ pc[r] = "parse"
    /\ LET res == ParseOutcome(req[r]) IN
         /\ Log(r, "_parse_multipart", IF res = "ok" THEN "ok" ELSE "error")
         /\ IF res = "ok"
            THEN /\ files' = [files EXCEPT ![r] = req[r].parts]
                 /\ pc' = [pc EXCEPT ![r] = "check"]
                 /\ resp' = resp
            ELSE /\ files' = files
                 /\ Raise(r, "parse", res)
    /\ UNCHANGED <<clock, req, tmp, ts, urls>>
    /\ storeUnchanged /\ otherUnchanged

\* lines 145-150: the required parts.
CheckParts(r) ==
    /\ pc[r] = "check"
    /\ IF MissingRequired(files[r])
       THEN /\ pc' = [pc EXCEPT ![r] = "done"]
            /\ resp' = [resp EXCEPT ![r] =
                  [NoResp EXCEPT !.status = 400, !.msg = "Missing 'excel' or 'word_template'"]]
       ELSE /\ pc' = [pc EXCEPT ![r] = "read"]
            /\ resp' = resp
    /\ UNCHANGED <<clock, req, files, tmp, ts, urls, hist>>
    /\ storeUnchanged /\ otherUnchanged

\* lines 151-155: _read_scores_from_excel leaves its .xlsx copy behind
\* (delete=False, never unlinked), whether or not it raises.
ReadScoresStep(r) ==
    /\ pc[r] = "read"
    /\ tmp' = [tmp EXCEPT ![r] = @ \cup {"xlsx"}]
    /\ LET res == ReadExcelOutcome(files[r].excel) IN
         /\ Log(r, "_read_scores_from_excel", IF res = "ok" THEN "ok" ELSE "error")
         /\ IF res = "ok"
            THEN pc' = [pc EXCEPT ![r] = "render"] /\ resp' = resp
            ELSE Raise(r, "read", res)
    /\ UNCHANGED <<clock, req, files, ts, urls>>
    /\ storeUnchanged /\ otherUnchanged

\* lines 156-157: the scorecard's temporary .pdf and _build_scorecard_pdf.
BuildScorecard(r) ==
    /\ pc[r] = "render"
    /\ tmp' = [tmp EXCEPT ![r] = @ \cup {"pdf"}]
    /\ Log(r, "_build_scorecard_pdf", "ok")
    /\ pc' = [pc EXCEPT ![r] = "fill"]
    /\ UNCHANGED <<clock, req, files, ts, urls, resp>>
    /\ storeUnchanged /\ otherUnchanged

\* line 158: _fill_word_scores unlinks its two .docx files on its last line
\* only (line 103); when it raises, the input copy stays.
FillWord(r) ==
    /\ pc[r] = "fill"
    /\ LET res == FillWordOutcome(files[r].word_template) IN
         /\ Log(r, "_fill_word_scores", IF res = "ok" THEN "ok" ELSE "error")
         /\ IF res = "ok"
            THEN /\ tmp' = [tmp EXCEPT ![r] = (@ \cup {"docx_in", "docx_out"})
                                                  \ {"docx_in", "docx_out"}]
                 /\ pc' = [pc EXCEPT ![r] = "merge"]
                 /\ resp' = resp
            ELSE /\ tmp' = [tmp EXCEPT ![r] = @ \cup {"docx_in"}]
                 /\ Raise(r, "fill", res)
    /\ UNCHANGED <<clock, req, files, ts, urls>>
    /\ storeUnchanged /\ otherUnchanged

\* lines 159-160: _merge_pdfs.
MergeStep(r) ==
    /\ pc[r] = "merge"
    /\ LET bad == MergeRaises(PartBytes(files[r].cover_pdf, "cover"),
                              PartBytes(files[r].narrative_pdf, "narrative")) IN
         /\ Log(r, "_merge_pdfs", IF bad THEN "error" ELSE "ok")
         /\ IF bad
            THEN Raise(r, "merge", "PdfReadError")
            ELSE pc' = [pc EXCEPT ![r] = "name"] /\ resp' = resp
    /\ UNCHANGED <<clock, req, files, tmp, ts, urls>>
    /\ storeUnchanged /\ otherUnchanged

\* lines 161-163: the timestamp both names share.
NameArtifacts(r) ==
    /\ pc[r] = "name"
    /\ ts' = [ts EXCEPT ![r] = StrfTime(clock)]
    /\ pc' = [pc EXCEPT ![r] = "prov_pdf"]
    /\ UNCHANGED <<clock, req, files, tmp, urls, resp, hist>>
    /\ storeUnchanged /\ otherUnchanged

\* Which artifact the _upload_with_sas call in progress is about.
Art(p) == IF p \in {"prov_pdf", "put_pdf", "sas_pdf"} THEN "pdf" ELSE "docx"
ArtName(r, a) == IF a = "pdf" THEN PdfName(ts[r]) ELSE DocxName(ts[r])
ArtData(r, a) == IF a = "pdf" THEN FinalPdf(r) ELSE FilledDocx(r)

\* The outcomes the storage service can give.
CreateOutcomes ==
    (IF containerExists THEN {"exists"} ELSE {"created"})
        \cup (IF storageFaulty THEN {"error"} ELSE {})
PutOutcomes ==
    (IF containerExists THEN {"ok"} ELSE {"error"})
        \cup (IF storageFaulty THEN {"error"} ELSE {})

\* lines 121-128: the connection string test and create_container, whose
\* every exception is passed over.
Provision(r) ==
    /\ pc[r] \in {"prov_pdf", "prov_docx"}
    /\ LET a == Art(pc[r]) IN
         IF CONN_STR = ""
         THEN /\ Log(r, "conn_check_" \o a, "error")
              /\ Raise(r, pc[r], "AZURE_STORAGE_CONNECTION_STRING not configured.")
              /\ UNCHANGED containerExists
         ELSE \E res \in CreateOutcomes :
              /\ Log(r, "create_container_" \o a, res)
              /\ containerExists' = (containerExists \/ res = "created")
              /\ pc' = [pc EXCEPT ![r] = "put_" \o a]
              /\ resp' = resp
    /\ UNCHANGED <<CONN_STR, storageFaulty, blobs, clock, req, files, tmp, ts, urls>>
    /\ otherUnchanged

\* line 129: container.upload_blob(name, data, overwrite=True).
Put(r) ==
    /\ pc[r] \in {"put_pdf", "put_docx"}
    /\ LET a == Art(pc[r]) IN
         \E res \in PutOutcomes :
            /\ Log(r, "upload_blob_" \o a, res)
            /\ IF res = "ok"
               THEN /\ blobs' = upload_blob(blobs, ArtName(r, a), ArtData(r, a))
                    /\ pc' = [pc EXCEPT ![r] = "sas_" \o a]
                    /\ resp' = resp
               ELSE /\ blobs' = blobs
                    /\ Raise(r, pc[r], "upload_blob failed")
    /\ UNCHANGED <<CONN_STR, storageFaulty, containerExists, clock, req, files, tmp, ts, urls>>
    /\ otherUnchanged

\* lines 130-140: bsc.credential.account_key exists only when the connection
\* string carries an account key; with a SAS connection string the attribute
\* access raises.
Sign(r) ==
    /\ pc[r] \in {"sas_pdf", "sas_docx"}
    /\ LET a == Art(pc[r]) IN
         /\ Log(r, "generate_blob_sas_" \o a, IF CONN_STR = "AccountKey" THEN "ok" ELSE "error")
         /\ IF CONN_STR = "AccountKey"
            THEN /\ urls' = [urls EXCEPT ![r][a] = SasUrl(ArtName(r, a))]
                 /\ pc' = [pc EXCEPT ![r] = IF a = "pdf" THEN "prov_docx" ELSE "respond"]
                 /\ resp' = resp
            ELSE /\ urls' = urls
                 /\ Raise(r, pc[r], "object has no attribute 'account_key'")
    /\ UNCHANGED <<clock, req, files, tmp, ts>>
    /\ storeUnchanged /\ otherUnchanged

\* lines 166-167.
Respond(r) ==
    /\ pc[r] = "respond"
    /\ resp' = [resp EXCEPT ![r] = [status |-> 200, msg |-> "json",
                                     pdf_url |-> urls[r].pdf,
                                     narrative_docx_url |-> urls[r].docx]]
    /\ pc' = [pc EXCEPT ![r] = "done"]
    /\ UNCHANGED <<clock, req, files, tmp, ts, urls, hist>>
    /\ storeUnchanged /\ otherUnchanged

\* Time passes.
Tick ==
    /\ clock < MaxClock
    /\ clock' = clock + 1
    /\ UNCHANGED <<req, pc, files, tmp, ts, urls, resp, hist>>
    /\ storeUnchanged /\ otherUnchanged

\* ------------------------------------------------- strings, as Python has them
\* str.lower on the letters the worksheets and templates below use.
LowerChar(c) ==
    CASE c = "S" -> "s"
      [] c = "O" -> "o"
      [] c = "F" -> "f"
      [] OTHER -> c

Lower(s) == [i \in DOMAIN s |-> LowerChar(s[i])]

RECURSIVE LStrip(_)
LStrip(s) == IF s # <<>> /\ Head(s) = " " THEN LStrip(Tail(s)) ELSE s

RECURSIVE RStrip(_)
RStrip(s) ==
    IF s # <<>> /\ s[Len(s)] = " " THEN RStrip(SubSeq(s, 1, Len(s) - 1)) ELSE s

\* str.strip
Strip(s) == LStrip(RStrip(s))

\* sub in s
Contains(s, sub) ==
    \E i \in 0..(Len(s) - Len(sub)) : SubSeq(s, i + 1, i + Len(sub)) = sub

StrOverall == <<"o", "v", "e", "r", "a", "l", "l">>
StrStaff == <<"S", "t", "a", "f", "f">>
StrStaffLower == <<"s", "t", "a", "f", "f">>
StrStaffPadded == <<" ", "S", "t", "a", "f", "f", " ">>
StrOverallScore == <<"O", "v", "e", "r", "a", "l", "l", " ", "S", "c", "o", "r", "e">>
StrFood == <<"F", "o", "o", "d">>
StrBlank == <<" ">>

\* ------------------------------------------------------------ worksheet cells
\* A cell of the worksheet: a number (in thousandths), a text, or empty.
NumCell(n) == [k |-> "number", v |-> n, s |-> <<>>]
TextCell(t) == [k |-> "text", v |-> 0, s |-> t]
EmptyCell == [k |-> "empty", v |-> 0, s |-> <<>>]

StrNA == <<"N", "/", "A">>
StrTbd == <<"t", "b", "d">>

\* Values of the data frame and of Python: a float, NaN, a str, None.
Num(n) == [k |-> "num", v |-> n, s |-> <<>>]
NaN == [k |-> "nan", v |-> 0, s |-> <<>>]
Str(t) == [k |-> "str", v |-> 0, s |-> t]
None == [k |-> "none", v |-> 0, s |-> <<>>]

\* pd.read_excel, line 39, with its default na_values: an empty cell and a
\* text cell spelling a missing value ("N/A", "NA", "nan", ...) both load as NaN.
PdValue(c) ==
    CASE c.k = "number" -> Num(c.v)
      [] c.k = "empty" -> NaN
      [] c.k = "text" -> IF c.s = StrNA THEN NaN ELSE Str(c.s)

\* to_num, lines 46-48: float(v), None when float raises. float(NaN) is NaN.
to_num(v) ==
    CASE v.k = "num" -> v
      [] v.k = "nan" -> NaN
      [] OTHER -> None

\* line 55: "overall" in name.lower()
IsOverallCaseSensitive(name) == Contains(name, StrOverall)

IsOverall(name) == Contains(Lower(name), StrOverall)

\* df.dropna(subset=[cat_col]), line 45.
DropNa(rows) == SelectSeq(rows, LAMBDA row : PdValue(row.cat).k # "nan")

\* The loop of lines 49-60 over the rows left by dropna; acc is
\* [cats, scores, overall].
RECURSIVE ScoreLoop(_, _)
ScoreLoop(rows, acc) ==
    IF rows = <<>> THEN acc
    ELSE LET r == Head(rows)
             name == Strip(PdValue(r.cat).s)
             val == to_num(PdValue(r.score))
         IN  IF name = <<>> THEN ScoreLoop(Tail(rows), acc)
             ELSE IF IsOverall(name)
             THEN ScoreLoop(Tail(rows),
                    IF val # None THEN [acc EXCEPT !.overall = val] ELSE acc)
             ELSE IF val # None
             THEN ScoreLoop(Tail(rows),
                    [acc EXCEPT !.cats = Append(@, name), !.scores = Append(@, val)])
             ELSE ScoreLoop(Tail(rows), acc)

\* _read_scores_from_excel, lines 45-61, on the resolved category and score columns.
ReadScores(rows) ==
    ScoreLoop(DropNa(rows), [cats |-> <<>>, scores |-> <<>>, overall |-> None])

\* ------------------------------------------------------------------- dicts
\* A Python dict: its items in insertion order, keys unique.
DictHas(d, key) == \E i \in DOMAIN d : d[i].key = key
DictGet(d, key) == d[CHOOSE i \in DOMAIN d : d[i].key = key].val

\* d[key] = val: a new key goes last, a known key keeps its place.
DictSet(d, key, val) ==
    IF DictHas(d, key)
    THEN [i \in DOMAIN d |-> IF d[i].key = key THEN [key |-> key, val |-> val] ELSE d[i]]
    ELSE Append(d, [key |-> key, val |-> val])

\* dict(zip(cats, scores)), line 155.
RECURSIVE ZipInto(_, _, _)
ZipInto(d, cs, ss) ==
    IF cs = <<>> \/ ss = <<>> THEN d
    ELSE ZipInto(DictSet(d, Head(cs), Head(ss)), Tail(cs), Tail(ss))

DictZip(cs, ss) == ZipInto(<<>>, cs, ss)

\* {k.strip().lower(): v for k, v in score_map.items()}, line 94.
RECURSIVE NormInto(_, _)
NormInto(d, items) ==
    IF items = <<>> THEN d
    ELSE NormInto(DictSet(d, Lower(Strip(Head(items).key)), Head(items).val), Tail(items))

Norm(sm) == NormInto(<<>>, sm)

\* ------------------------------------------------------------ the template
\* The text of a table cell: the template's own text, or what line 98 wrote.
OrigText == [k |-> "orig", whole |-> 0, frac |-> 0]

\* f"{v:.2f}", line 98: two decimals (the values used have no rounding tie).
Format2f(v) ==
    IF v.k = "nan" THEN [k |-> "nan", whole |-> 0, frac |-> 0]
    ELSE LET q == (v.v + 5) \div 10
         IN  [k |-> "num2f", whole |-> q \div 100, frac |-> q % 100]

TRow(c0) == [c0 |-> c0, c1 |-> OrigText]

Templates ==
    { <<TRow(<<"C">>), TRow(StrStaffPadded), TRow(StrFood)>>,
      <<TRow(StrStaffLower), TRow(StrStaff)>> }

\* _fill_word_scores, lines 93-98: every row but the first of the first table.
FillWordScores(t, sm) ==
    LET norm == Norm(sm) IN
    [i \in DOMAIN t |->
        IF i > 1 /\ DictHas(norm, Lower(Strip(t[i].c0)))
        THEN [t[i] EXCEPT !.c1 = Format2f(DictGet(norm, Lower(Strip(t[i].c0))))]
        ELSE t[i]]

\* --------------------------------------------- the score functions, applied
CatCells == {TextCell(StrStaff), TextCell(StrStaffLower), TextCell(StrOverallScore)}
SkippedCatCells == {TextCell(StrBlank), EmptyCell}
ScoreCells == {NumCell(4500), NumCell(3812), EmptyCell, TextCell(StrNA), TextCell(StrTbd)}
\* Rows with a category, with every kind of score cell; rows without one
\* (blank text, empty cell), whose score cell the loop never uses.
SheetRows ==
    [cat : CatCells, score : ScoreCells]
        \cup [cat : SkippedCatCells, score : {NumCell(4500)}]

RECURSIVE SeqsUpTo(_, _)
SeqsUpTo(S, n) ==
    IF n = 0 THEN {<<>>}
    ELSE LET shorter == SeqsUpTo(S, n - 1)
         IN  shorter \cup {Append(q, x) : q \in {p \in shorter : Len(p) = n - 1}, x \in S}

pipeUnchanged == UNCHANGED pipeVars

ReadCall ==
    /\ sphase = "input"
    /\ LET res == ReadScores(sheet) IN
         /\ cats' = res.cats
         /\ scores' = res.scores
         /\ overall' = res.overall
    /\ sphase' = "read"
    /\ UNCHANGED <<sheet, score_map, table, mergeVars>>
    /\ pipeUnchanged

ZipCall ==
    /\ sphase = "read"
    /\ score_map' = DictZip(cats, scores)
    /\ sphase' = "zipped"
    /\ UNCHANGED <<sheet, cats, scores, overall, table, mergeVars>>
    /\ pipeUnchanged

FillCall ==
    /\ sphase = "zipped"
    /\ \E tpl \in Templates : table' = FillWordScores(tpl, score_map)
    /\ sphase' = "filled"
    /\ UNCHANGED <<sheet, cats, scores, overall, score_map, mergeVars>>
    /\ pipeUnchanged

\* ------------------------------------------------------ _merge_pdfs, applied
OptionalPdfs == {NonePdf, EmptyBytes} \cup {PdfDoc(DocPages("x", n)) : n \in 0..MaxPages}

WithDoc(b, doc) == IF b.k = "pdf" THEN PdfDoc(DocPages(doc, Len(b.pages))) ELSE b

MergeCall ==
    /\ mphase = "input"
    /\ writer' = MergePdfs(cover_pdf_bytes, scorecard_pdf, narrative_pdf_bytes)
    /\ mphase' = "merged"
    /\ UNCHANGED <<cover_pdf_bytes, scorecard_pdf, narrative_pdf_bytes, out, scoreVars>>
    /\ pipeUnchanged

\* writer.write(out); out.getvalue(), lines 116-118.
WriteCall ==
    /\ mphase = "merged"
    /\ out' = writer
    /\ mphase' = "written"
    /\ UNCHANGED <<cover_pdf_bytes, scorecard_pdf, narrative_pdf_bytes, writer, scoreVars>>
    /\ pipeUnchanged

\* -------------------------------------------------- initial states, Next
IdleInvocations ==
    /\ req = [r \in Reqs |-> NoReq]
    /\ pc = [r \in Reqs |-> "idle"]
    /\ files = [r \in Reqs |-> NoParts]
    /\ tmp = [r \in Reqs |-> {}]
    /\ ts = [r \in Reqs |-> -1]
    /\ urls = [r \in Reqs |-> NoUrls]
    /\ resp = [r \in Reqs |-> NoResp]
    /\ hist = [r \in Reqs |-> <<>>]

ScoresOff ==
    /\ sheet = <<>> /\ cats = <<>> /\ scores = <<>>
    /\ overall = [k |-> "none", v |-> 0, s |-> <<>>]
    /\ score_map = <<>> /\ table = <<>> /\ sphase = "off"

MergeOff ==
    /\ cover_pdf_bytes = NonePdf /\ scorecard_pdf = NonePdf
    /\ narrative_pdf_bytes = NonePdf
    /\ writer = <<>> /\ out = <<>> /\ mphase = "off"

Init ==
    /\ CONN_STR \in {"", "AccountKey", "SharedAccessSignature"}
    /\ storageFaulty \in BOOLEAN
    /\ containerExists \in BOOLEAN
    /\ blobs = {}
    /\ clock = 0
    /\ IdleInvocations /\ ScoresOff /\ MergeOff

InitConc ==
    /\ CONN_STR = "AccountKey"
    /\ storageFaulty = FALSE
    /\ containerExists \in BOOLEAN
    /\ blobs = {}
    /\ clock = 0
    /\ IdleInvocations /\ ScoresOff /\ MergeOff

Main(r) ==
    \/ ParseMultipart(r)
    \/ CheckParts(r)
    \/ ReadScoresStep(r)
    \/ BuildScorecard(r)
    \/ FillWord(r)
    \/ MergeStep(r)
    \/ NameArtifacts(r)
    \/ Provision(r)
    \/ Put(r)
    \/ Sign(r)
    \/ Respond(r)

Next == Tick \/ Receive(FirstReq) \/ Main(FirstReq)

NextConc == Tick \/ \E r \in Reqs : ReceiveValid(r) \/ Main(r)

Spec == Init /\ [][Next]_vars

SpecConc == InitConc /\ [][NextConc]_vars

PipeOff ==
    /\ CONN_STR = "AccountKey"
    /\ storageFaulty = FALSE
    /\ containerExists = FALSE
    /\ blobs = {}
    /\ clock = 0
    /\ IdleInvocations

InitScores ==
    /\ sheet \in SeqsUpTo(SheetRows, MaxRows)
    /\ cats = <<>> /\ scores = <<>> /\ overall = None
    /\ score_map = <<>> /\ table = <<>> /\ sphase = "input"
    /\ PipeOff /\ MergeOff

NextScores == ReadCall \/ ZipCall \/ FillCall

SpecScores == InitScores /\ [][NextScores]_vars

InitMerge ==
    /\ cover_pdf_bytes \in {WithDoc(b, "cover") : b \in OptionalPdfs}
    /\ scorecard_pdf \in {PdfDoc(DocPages("scorecard", n)) : n \in 1..MaxPages}
    /\ narrative_pdf_bytes \in {WithDoc(b, "narrative") : b \in OptionalPdfs}
    /\ writer = <<>> /\ out = <<>> /\ mphase = "input"
    /\ PipeOff /\ ScoresOff

NextMerge == MergeCall \/ WriteCall

SpecMerge == InitMerge /\ [][NextMerge]_vars

\* ================================================================ claims
Done(r) == pc[r] = "done"
BlobsOf(r) == {b \in blobs : b.data.req = r}
CalledOk(r, op) == \E i \in DOMAIN hist[r] : hist[r][i] = Call(op, "ok")
Parsed(r) == CalledOk(r, "_parse_multipart")
LastCall(r) == hist[r][Len(hist[r])]
NoRetry(r) == \A i, j \in DOMAIN hist[r] : i # j => hist[r][i].op # hist[r][j].op

\* C1: a request whose decoded parts lack excel or lack word_template ends
\* with HTTP 400 and nothing further is done for it: no call after
\* _parse_multipart, no temporary file, no URL, no blob.
C1_MissingPartIs400 ==
    \A r \in Reqs :
        (/\ Parsed(r)
         /\ pc[r] # "check"
         /\ (files[r].excel = Absent \/ files[r].word_template = Absent))
        => /\ Done(r)
           /\ resp[r].status = 400
           /\ hist[r] = <<Call("_parse_multipart", "ok")>>
           /\ tmp[r] = {}
           /\ urls[r] = NoUrls
           /\ BlobsOf(r) = {}

\* C1 witness: a request with excel but no word_template has been answered.
C1_Witness ==
    \E r \in Reqs :
        /\ Done(r) /\ Parsed(r)
        /\ files[r].excel = "workbook" /\ files[r].word_template = Absent
        /\ resp[r].status = 400

Malformed(q) == q.ctype # "multipart/form-data; boundary=x" \/ ~q.decodable

\* C2 (as claimed): a malformed request (Content-Type missing or not
\* multipart, or an undecodable body) is answered with HTTP 400, never 500.
C2_MalformedIs400 ==
    \A r \in Reqs :
        (Done(r) /\ Malformed(req[r])) => resp[r].status = 400

\* C3 (as claimed): an invocation that ends with HTTP 500 has written no
\* artifact to storage, and has retried no stage. Stated for deployments
\* whose connection string carries an account key, where signing cannot fail.
C3_NoPartialPublish ==
    \A r \in Reqs :
        (Done(r) /\ resp[r].status = 500 /\ CONN_STR = "AccountKey")
            => (BlobsOf(r) = {} /\ NoRetry(r))

BeforeFirstWrite ==
    {"_parse_multipart", "_read_scores_from_excel", "_build_scorecard_pdf",
     "_fill_word_scores", "_merge_pdfs", "conn_check_pdf", "upload_blob_pdf"}
AfterFirstWrite == {"generate_blob_sas_pdf", "conn_check_docx", "upload_blob_docx"}
AfterSecondWrite == {"generate_blob_sas_docx"}

\* C3 (amended): no stage is ever retried, and when an invocation ends with
\* HTTP 500 the artifacts it has written are those whose upload_blob had
\* completed before the failing step: none when the failing step is the
\* first upload_blob or anything before it, the merged PDF only when the
\* failing step lies between the first upload_blob and the second one
\* (inclusive of the second), both when the last signing fails.
C3_PublishedUpToFailure ==
    \A r \in Reqs :
        /\ NoRetry(r)
        /\ (Done(r) /\ resp[r].status = 500) =>
             LET f == LastCall(r)
                 kinds == {b.data.kind : b \in BlobsOf(r)}
             IN  /\ f.res = "error"
                 /\ f.op \in BeforeFirstWrite \cup AfterFirstWrite \cup AfterSecondWrite
                 /\ f.op \in BeforeFirstWrite => kinds = {}
                 /\ f.op \in AfterFirstWrite =>
                        /\ CalledOk(r, "upload_blob_pdf")
                        /\ kinds \subseteq {"final_pdf"}
                 /\ f.op \in AfterSecondWrite =>
                        /\ CalledOk(r, "upload_blob_pdf")
                        /\ CalledOk(r, "upload_blob_docx")
                        /\ kinds \subseteq {"final_pdf", "filled_docx"}

\* C3 witness: the second upload_blob failed and the request's PDF is in storage.
C3_Witness ==
    \E r \in Reqs :
        /\ Done(r) /\ resp[r].status = 500
        /\ LastCall(r) = Call("upload_blob_docx", "error")
        /\ {b.data.kind : b \in BlobsOf(r)} = {"final_pdf"}

\* C4 (as claimed): every request answered with 200 returns two URLs of
\* distinct object names sharing the timestamp suffix, and each URL resolves
\* to the artifact that same request produced.
C4_RequestsIndependent ==
    \A r \in Reqs :
        (Done(r) /\ resp[r].status = 200) =>
            LET p == resp[r].pdf_url
                d == resp[r].narrative_docx_url
            IN  /\ p.blob # d.blob
                /\ p.blob.ts = d.blob.ts
                /\ Resolve(p) = {FinalPdf(r)}
                /\ Resolve(d) = {FilledDocx(r)}

PageCount(b) == IF b.k = "pdf" THEN Len(b.pages) ELSE 0

\* C5: the merged document is the cover's pages in order (when a cover is
\* given), then the scorecard's pages in order, then the narrative's pages
\* in order (when given); its page count is the sum of the inputs' counts.
C5_MergeOrder ==
    mphase = "written" =>
        LET nc == PageCount(cover_pdf_bytes)
            ns == PageCount(scorecard_pdf)
            nn == PageCount(narrative_pdf_bytes)
        IN  /\ Len(out) = nc + ns + nn
            /\ \A i \in 1..nc : out[i] = [doc |-> "cover", n |-> i]
            /\ \A i \in 1..ns : out[nc + i] = [doc |-> "scorecard", n |-> i]
            /\ \A i \in 1..nn : out[nc + ns + i] = [doc |-> "narrative", n |-> i]

\* C5 witness: cover of 2 pages, scorecard of 1, narrative of 3, merged into 6.
C5_Witness ==
    /\ mphase = "written"
    /\ PageCount(cover_pdf_bytes) = 2
    /\ PageCount(scorecard_pdf) = 1
    /\ PageCount(narrative_pdf_bytes) = 3
    /\ Len(out) = 6

\* The worksheet rows whose category text, lowercased, contains "overall".
OverallRows ==
    {i \in DOMAIN sheet :
        /\ sheet[i].cat.k = "text"
        /\ Contains(Lower(sheet[i].cat.s), StrOverall)}
Parses(c) == c.k \in {"number", "empty"} \/ (c.k = "text" /\ c.s = StrNA)

LastSeen(key) ==
    LET same == {i \in DOMAIN cats : Lower(Strip(cats[i])) = key}
    IN  scores[CHOOSE i \in same : \A j \in same : j <= i]

AllNumeric == \A i \in DOMAIN sheet : sheet[i].score.k = "number"

\* C7 (as claimed): for every category key (trim + lowercase), the value
\* _fill_word_scores looks up, and writes into the matching template row,
\* is the score of the last row of that key in worksheet order. Stated for
\* worksheets whose score cells all hold numbers.
C7_LastSeenWins ==
    AllNumeric =>
    /\ sphase \in {"zipped", "filled"} =>
          \A i \in DOMAIN cats :
              LET key == Lower(Strip(cats[i]))
              IN  DictHas(Norm(score_map), key)
                  /\ DictGet(Norm(score_map), key) = LastSeen(key)
    /\ sphase = "filled" =>
          \A t \in DOMAIN table :
              LET key == Lower(Strip(table[t].c0))
              IN  (t > 1 /\ \E i \in DOMAIN cats : Lower(Strip(cats[i])) = key)
                  => table[t].c1 = Format2f(LastSeen(key))

\* The rows that should yield a ScoreRow: a non-blank category that is not an
\* overall row, and a score cell holding a number.
NumericRows ==
    {i \in DOMAIN sheet :
        /\ sheet[i].cat.k = "text"
        /\ Strip(sheet[i].cat.s) # <<>>
        /\ i \notin OverallRows
        /\ sheet[i].score.k = "number"}

\* C8 (as claimed): every score in rows is a finite real number, and a row
\* whose score cell holds no number (stray text, an empty cell) is omitted.
C8_ScoresFinite ==
    sphase # "input" =>
        /\ \A i \in DOMAIN scores : scores[i].k = "num"
        /\ Len(cats) = Cardinality(NumericRows)

\* C9 (as claimed): a create_container failure other than 'already exists'
\* ends the request with HTTP 500 and no upload_blob follows it.
C9_ProvisionFailureSurfaced ==
    \A r \in Reqs : \A a \in {"pdf", "docx"} : \A i \in DOMAIN hist[r] :
        hist[r][i] = Call("create_container_" \o a, "error") =>
            /\ \A j \in DOMAIN hist[r] : j > i => hist[r][j].op # "upload_blob_" \o a
            /\ Done(r) => resp[r].status = 500

\* C10 (as claimed): when the response is returned, every temporary file
\* created for the request has been deleted.
C10_TempReclaimed ==
    \A r \in Reqs : Done(r) => tmp[r] = {}

====
